---------------------------- MODULE Spec2Model ----------------------------
(***************************************************************************)
(* Model of the alt-text generator: the Express relay (server.js) and the  *)
(* browser session (client/src/AltTextApp.tsx).                            *)
(*                                                                         *)
(* Text is a sequence of one-character strings, so that trim and the CSV   *)
(* escaping work on characters as the code does.  JSON objects are         *)
(* functions from keys to tagged values; an absent key maps to Undef.      *)
(***************************************************************************)
EXTENDS Integers, Sequences, FiniteSets, TLC

VARIABLES
    (* server.js: the last request served and its response *)
    req, res,
    (* AltTextApp.tsx: React state of the session *)
    rows, errors, isProcessing,
    (* AltTextApp.tsx: the files the step just taken called handleFiles with,
       empty when that step was no submission *)
    asArray,
    (* AltTextApp.tsx: the handleFiles invocations that are suspended at an await *)
    pc, validFiles, described,
    (* AltTextApp.tsx: how the step just taken ended a handleFiles invocation:
       "done", "failed", or "none" when it ended none *)
    settled,
    (* AltTextApp.tsx: the document the step just taken handed to the browser,
       empty when that step was no download *)
    csv

vars ==
    <<req, res, rows, errors, isProcessing, pc, asArray, validFiles, described, settled, csv>>
serverVars == <<req, res>>
uiVars == <<rows, errors, isProcessing, pc, asArray, validFiles, described, settled>>

(***************************************************************************)
(* Bounds of the model                                                     *)
(***************************************************************************)
\* items in one translate request, files in one describe request
MaxItems == 2
\* files in one submission of the session
MaxFiles == 3
\* length of the rows list of the session
MaxRows == 2
\* length of the errors list of the session
MaxErrors == 2
\* rows of a document given to toCSV
MaxCsvRows == 2
\* characters of the varying field of a row given to toCSV
MaxFieldLen == 2

(***************************************************************************)
(* Text helpers                                                            *)
(***************************************************************************)
Str(c) == <<c>>
EmptyStr == <<>>

Whitespace == {" ", "\t", "\n", "\r"}

RECURSIVE TrimStart(_)
TrimStart(s) ==
    IF s # <<>> /\ Head(s) \in Whitespace THEN TrimStart(Tail(s)) ELSE s

RECURSIVE TrimEnd(_)
TrimEnd(s) ==
    IF s # <<>> /\ s[Len(s)] \in Whitespace
    THEN TrimEnd(SubSeq(s, 1, Len(s) - 1))
    ELSE s

\* String.prototype.trim
Trim(s) == TrimEnd(TrimStart(s))

(***************************************************************************)
(* server.js                                                               *)
(***************************************************************************)
LOCALES == <<"es-ES", "it-IT", "nl-NL", "nl-BE", "fr-FR", "de-DE", "de-AT">>

LocaleSet == {LOCALES[i] : i \in 1..Len(LOCALES)}

\* what one openai.chat.completions.create call does: it rejects, or it
\* resolves with a message content
RemoteFail == [k |-> "fail"]
RemoteOk(content) == [k |-> "ok", content |-> content]

\* message content: none (no choices, null or empty content) or a text
NoContent == [t |-> "none"]
Text(s) == [t |-> "text", s |-> s]

DefaultAlt == <<"D">>

\* (completion.choices?.[0]?.message?.content || "Descriptive alt text.").trim()
EnglishAlt(content) ==
    IF content.t = "none" \/ content.s = <<>>
    THEN Trim(DefaultAlt)
    ELSE Trim(content.s)

\* what the route answers: res.status(..).send(text) or res.json({results|rows: list}),
\* and calls, the number of remote calls the route issued before answering
Response(status, text, list, calls) ==
    [status |-> status, text |-> text, list |-> list, calls |-> calls]

\* DescribeLoop with results.unshift in place of results.push
RECURSIVE DescribeLoopUnshift(_, _, _, _)
DescribeLoopUnshift(files, outs, i, results) ==
    IF i > Len(files) THEN Response(200, "", results, i - 1)
    ELSE IF outs[i].k = "fail" THEN Response(500, "Describe error", <<>>, i)
    ELSE DescribeLoopUnshift(files, outs, i + 1,
            <<[filename |-> files[i].originalname,
               english_alt |-> EnglishAlt(outs[i].content)]>> \o results)

\* the for loop of the describe route, from file i on; a rejected remote call
\* throws into the route's catch
RECURSIVE DescribeLoop(_, _, _, _)
DescribeLoop(files, outs, i, results) ==
    IF i > Len(files) THEN Response(200, "", results, i - 1)
    ELSE IF outs[i].k = "fail" THEN Response(500, "Describe error", <<>>, i)
    ELSE DescribeLoop(files, outs, i + 1,
            Append(results, [filename |-> files[i].originalname,
                             english_alt |-> EnglishAlt(outs[i].content)]))

\* app.post("/api/describe"): files is req.files, outs[i] the outcome of the
\* remote call for file i (when it is issued)
DescribeRoute(files, outs) ==
    IF Len(files) = 0 THEN Response(200, "", <<>>, 0)
    ELSE DescribeLoop(files, outs, 1, <<>>)

\* JSON values of the remote translation object
Undef == [t |-> "undef"]
JNull == [t |-> "null"]
JStr(s) == [t |-> "str", s |-> s]

\* parsed[lc] || ""
OrEmpty(v) == IF v.t = "str" /\ v.s # <<>> THEN v.s ELSE EmptyStr

\* JSON.parse(content || "{}"): "throws", a parsed null, or an object
JsonParse(content) ==
    IF content.t = "none" THEN [t |-> "object", get |-> [k \in {} |-> Undef]]
    ELSE IF content.t = "garbage" THEN [t |-> "throws"]
    ELSE content

Get(parsed, key) == IF key \in DOMAIN parsed.get THEN parsed.get[key] ELSE Undef

\* NewRow without the seven empty locale fields
NewRowNoLocales(it) ==
    [k \in {"filename", "english_alt"} |->
        IF k = "filename" THEN it.filename ELSE it.english_alt]

\* the row literal of the translate route
NewRow(it) ==
    [k \in {"filename", "english_alt"} \cup LocaleSet |->
        IF k = "filename" THEN it.filename
        ELSE IF k = "english_alt" THEN it.english_alt
        ELSE EmptyStr]

\* row[lc] = ... : assignment to a key of the row object, new or not
SetKey(row, key, val) ==
    [k \in DOMAIN row \cup {key} |-> IF k = key THEN val ELSE row[k]]

\* for (const lc of locales) row[lc] = parsed[lc] || ""
RECURSIVE FillLocales(_, _, _, _)
FillLocales(row, parsed, locales, j) ==
    IF j > Len(locales) THEN row
    ELSE FillLocales(SetKey(row, locales[j], OrEmpty(Get(parsed, locales[j]))),
                     parsed, locales, j + 1)

IsNullItem(it) == "filename" \notin DOMAIN it

\* the for loop of the translate route, from item i on
RECURSIVE TranslateLoop(_, _, _, _, _)
TranslateLoop(items, locales, outs, i, acc) ==
    IF i > Len(items) THEN Response(200, "", acc, i - 1)
    \* it.filename of a null item throws before the remote call
    ELSE IF IsNullItem(items[i]) THEN Response(500, "Translate error", <<>>, i - 1)
    ELSE IF outs[i].k = "fail" THEN Response(500, "Translate error", <<>>, i)
    ELSE LET parsed == JsonParse(outs[i].content) IN
         IF parsed.t = "throws" THEN Response(500, "Translate error", <<>>, i)
         \* parsed[lc] of a parsed null throws
         ELSE IF parsed.t = "null" /\ Len(locales) > 0
              THEN Response(500, "Translate error", <<>>, i)
         ELSE TranslateLoop(items, locales, outs, i + 1,
                 Append(acc, FillLocales(NewRow(items[i]),
                                         IF parsed.t = "null"
                                         THEN [t |-> "object", get |-> [k \in {} |-> Undef]]
                                         ELSE parsed,
                                         locales, 1)))

\* a field of the request body: an array or anything else (absent, a string, ...)
Arr(s) == [isArray |-> TRUE, v |-> s]
NotArr == [isArray |-> FALSE]

NoBody == [absent |-> TRUE]

\* const { items, locales } = req.body || {}
Destructure(body) ==
    IF "absent" \in DOMAIN body THEN [items |-> NotArr, locales |-> NotArr] ELSE body

\* TranslateRoute whose shape check looks at items only: the loop over a
\* non-array locales throws after the first remote call
TranslateRouteItemsOnly(body, outs) ==
    LET b == Destructure(body) IN
    IF ~b.items.isArray THEN Response(400, "Bad request", <<>>, 0)
    ELSE IF ~b.locales.isArray
         THEN IF Len(b.items.v) = 0 THEN Response(200, "", <<>>, 0)
              ELSE Response(500, "Translate error", <<>>, 1)
    ELSE TranslateLoop(b.items.v, b.locales.v, outs, 1, <<>>)

\* app.post("/api/translate"): body is req.body, outs[i] the outcome of the
\* remote call for item i (when it is issued)
TranslateRoute(body, outs) ==
    LET b == Destructure(body) IN
    IF ~b.items.isArray \/ ~b.locales.isArray
    THEN Response(400, "Bad request", <<>>, 0)
    ELSE TranslateLoop(b.items.v, b.locales.v, outs, 1, <<>>)

(***************************************************************************)
(* client/src/AltTextApp.tsx                                               *)
(***************************************************************************)
SUPPORTED_MIME == {"image/jpeg", "image/jpg", "image/png", "image/webp"}

MAX_SIZE_BYTES == 5 * 1024 * 1024

\* an entry of the errors list
Message(kind, name, status, text) ==
    [kind |-> kind, name |-> name, status |-> status, text |-> text]
\* `${file.name} is not a supported image format (.jpg, .jpeg, .png, .webp).`
FormatMessage(file) == Message("is not a supported image format", file.name, 0, "")
\* `${file.name} exceeds 5 MB. Please upload images up to 5 MB.`
SizeMessage(file) == Message("exceeds 5 MB", file.name, 0, "")

\* Classify with the size test before the type test
ClassifySizeFirst(file) ==
    IF file.size > MAX_SIZE_BYTES THEN "size"
    ELSE IF file.type \notin SUPPORTED_MIME THEN "format"
    ELSE "valid"

\* Classify with >= in the size test
ClassifyGe(file) ==
    IF file.type \notin SUPPORTED_MIME THEN "format"
    ELSE IF file.size >= MAX_SIZE_BYTES THEN "size"
    ELSE "valid"

\* the if / else if / else of the forEach callback of handleFiles
Classify(file) ==
    IF file.type \notin SUPPORTED_MIME THEN "format"
    ELSE IF file.size > MAX_SIZE_BYTES THEN "size"
    ELSE "valid"

\* asArray.forEach(...): the lists newErrors and validFiles it builds
RECURSIVE Validate(_, _, _, _)
Validate(files, i, newErrors, valid) ==
    IF i > Len(files) THEN [newErrors |-> newErrors, validFiles |-> valid]
    ELSE LET c == Classify(files[i]) IN
         IF c = "format"
         THEN Validate(files, i + 1, Append(newErrors, FormatMessage(files[i])), valid)
         ELSE IF c = "size"
         THEN Validate(files, i + 1, Append(newErrors, SizeMessage(files[i])), valid)
         ELSE Validate(files, i + 1, newErrors, Append(valid, files[i]))

\* what a fetch settles with: a rejection (network error), or a response with
\* a status, a text body and, when the body is JSON with the expected array
\* field, that array
NetworkError == [k |-> "network"]
HttpReply(status, text, hasList, list) ==
    [k |-> "http", status |-> status, text |-> text, hasList |-> hasList, list |-> list]
\* the reply that carries the relay's answer
FromRelay(r) == HttpReply(r.status, r.text, r.status = 200, r.list)
\* a 200 reply whose JSON body lacks the array (a proxy's or a stale build's)
NoArrayReply == HttpReply(200, "", FALSE, <<>>)

Thrown(message) == [ok |-> FALSE, message |-> message, value |-> <<>>]
Returned(value) == [ok |-> TRUE, message |-> Message("", <<>>, 0, ""), value |-> value]

\* batchDescribe / batchTranslate after the fetch settled with reply; api is
\* "Describe" or "Translate", bad the message for a body without the array
ReadReply(reply, failed, bad) ==
    IF reply.k = "network" THEN Thrown(Message("Failed to fetch", <<>>, 0, ""))
    ELSE IF reply.status < 200 \/ reply.status > 299
         THEN Thrown(Message(failed, <<>>, reply.status, reply.text))
    ELSE IF ~reply.hasList THEN Thrown(Message(bad, <<>>, 0, ""))
    ELSE Returned(reply.list)

BatchDescribe(reply) == ReadReply(reply, "Describe API failed", "Bad describe API response")
BatchTranslate(reply) == ReadReply(reply, "Translate API failed", "Bad translate API response")

\* multer: the File parts of the form as req.files
ToUploads(files) ==
    [i \in 1..Len(files) |-> [originalname |-> files[i].name, mimetype |-> files[i].type]]

\* JSON.stringify({ items, locales }) as the relay's req.body
TranslateBody(items) == [items |-> Arr(items), locales |-> Arr(LOCALES)]

\* setErrors((prev) => [...prev, e?.message || String(e)])
CatchError(prev, e) == Append(prev, e.message)

\* AppendRows from a stale rows value: setRows([...completedRows])
AppendRowsStale(prev, completedRows) == completedRows

\* setRows((prev) => [...prev, ...completedRows])
AppendRows(prev, completedRows) == prev \o completedRows

\* useCSV: the header names, in column order
HEADERS ==
    <<"filename", "english_alt", "es-ES", "it-IT", "nl-NL", "nl-BE", "fr-FR", "de-DE", "de-AT">>

DQ == "\""
BOM == "BOM"

\* v.replace(/"/g, '""')
RECURSIVE DoubleQuotes(_)
DoubleQuotes(v) ==
    IF v = <<>> THEN <<>>
    ELSE (IF Head(v) = DQ THEN <<DQ, DQ>> ELSE <<Head(v)>>) \o DoubleQuotes(Tail(v))

\* escape that also quotes a field holding a carriage return: /[",\r\n]/
EscapeWithCR(v) ==
    IF \E i \in 1..Len(v) : v[i] \in {DQ, ",", "\n", "\r"}
    THEN <<DQ>> \o DoubleQuotes(v) \o <<DQ>>
    ELSE v

\* escape of toCSV: /[",\n]/.test(v) ? '"' + v.replace(/"/g, '""') + '"' : v
Escape(v) ==
    IF \E i \in 1..Len(v) : v[i] \in {DQ, ",", "\n"}
    THEN <<DQ>> \o DoubleQuotes(v) \o <<DQ>>
    ELSE v

\* Array.prototype.join
RECURSIVE Join(_, _)
Join(parts, sep) ==
    IF parts = <<>> THEN <<>>
    ELSE IF Len(parts) = 1 THEN parts[1]
    ELSE parts[1] \o <<sep>> \o Join(Tail(parts), sep)

\* (r as any)[h] ?? ""
Field(r, h) == IF h \in DOMAIN r THEN r[h] ELSE EmptyStr

\* headers.map((h) => escape(r[h] ?? "")).join(",")
RowLine(r) == Join([j \in 1..Len(HEADERS) |-> Escape(Field(r, HEADERS[j]))], ",")

\* toCSV: the header line, one line per row, joined by "\n"
ToCSV(rs) ==
    Join(<<Join([j \in 1..Len(HEADERS) |-> Str(HEADERS[j])], ",")>>
            \o [i \in 1..Len(rs) |-> RowLine(rs[i])],
         "\n")

\* download: the text of the blob, "\uFEFF" + csv
Blob(rs) == <<BOM>> \o ToCSV(rs)

(***************************************************************************)
(* The relay served by arbitrary HTTP clients                              *)
(***************************************************************************)
SeqsUpTo(S, n) == UNION {[1..m -> S] : m \in 0..n}

UploadJ == [originalname |-> Str("j"), mimetype |-> "image/jpeg"]
UploadW == [originalname |-> Str("w"), mimetype |-> "image/webp"]
Uploads == {UploadJ, UploadW}

DescribeContents == {NoContent, Text(<<>>), Text(<<" ">>), Text(<<" ", "a", " ">>)}
DescribeOutcomes == {RemoteFail} \cup {RemoteOk(c) : c \in DescribeContents}

ItemJ == [filename |-> Str("j"), english_alt |-> Str("a")]
ItemW == [filename |-> Str("w"), english_alt |-> Str("b")]
NullItem == [t |-> "null"]
Items == {ItemJ, ItemW, NullItem}

\* the translation of a text into locale lc, as a token
Translated(lc) == Str(lc)

Garbage == [t |-> "garbage"]
JsonObject(f) == [t |-> "object", get |-> f]
ObjFull == JsonObject([lc \in LocaleSet |-> JStr(Translated(lc))])
ObjOmitFr == JsonObject([lc \in LocaleSet \ {"fr-FR"} |-> JStr(Translated(lc))])
ObjFrEmpty ==
    JsonObject([lc \in LocaleSet |-> IF lc = "fr-FR" THEN JStr(EmptyStr) ELSE JStr(Translated(lc))])
ObjFrNull ==
    JsonObject([lc \in LocaleSet |-> IF lc = "fr-FR" THEN JNull ELSE JStr(Translated(lc))])
TranslateContents == {NoContent, Garbage, JNull, ObjFull, ObjOmitFr, ObjFrEmpty, ObjFrNull}
TranslateOutcomes == {RemoteFail} \cup {RemoteOk(c) : c \in TranslateContents}

LocaleLists == {LOCALES, <<"fr-FR", "xx">>, <<"filename">>, <<>>}

\* request bodies with at most n items
Bodies(n) ==
    {NoBody}
    \cup {[items |-> NotArr, locales |-> Arr(l)] : l \in LocaleLists}
    \cup {[items |-> Arr(is), locales |-> NotArr] : is \in SeqsUpTo(Items, 1)}
    \cup {[items |-> Arr(is), locales |-> Arr(l)] :
            is \in SeqsUpTo(Items, n), l \in LocaleLists}

NoRequest == [route |-> "none"]
NoResponse == Response(0, "", <<>>, 0)

\* a request a client may send, with the behaviour of the remote while it is
\* served: outs[i] is the outcome of the i-th remote call
DescribeRequest(files, outs) == [route |-> "describe", files |-> files, outs |-> outs]
TranslateRequest(body, outs) == [route |-> "translate", body |-> body, outs |-> outs]

ItemCount(body) ==
    IF Destructure(body).items.isArray THEN Len(Destructure(body).items.v) ELSE 0

\* no browser session
InitUI ==
    /\ rows = <<>>
    /\ errors = <<>>
    /\ isProcessing = FALSE
    /\ pc = <<>>
    /\ asArray = <<>>
    /\ validFiles = <<>>
    /\ described = <<>>
    /\ settled = "none"
    /\ csv = <<>>

\* a request arrives at the relay
InitServer ==
    /\ \E client \in {"describe", "translate"} :
         IF client = "describe"
         THEN \E files \in SeqsUpTo(Uploads, MaxItems) :
                \E outs \in [1..Len(files) -> DescribeOutcomes] :
                   req = DescribeRequest(files, outs)
         ELSE \E body \in Bodies(MaxItems) :
                \E outs \in [1..ItemCount(body) -> TranslateOutcomes] :
                   req = TranslateRequest(body, outs)
    /\ res = NoResponse
    /\ InitUI

\* the describe route serves the request
ServeDescribe ==
    /\ req.route = "describe"
    /\ res = NoResponse
    /\ res' = DescribeRoute(req.files, req.outs)
    /\ UNCHANGED <<req, uiVars, csv>>

\* the translate route serves the request
ServeTranslate ==
    /\ req.route = "translate"
    /\ res = NoResponse
    /\ res' = TranslateRoute(req.body, req.outs)
    /\ UNCHANGED <<req, uiVars, csv>>

NextServer == ServeDescribe \/ ServeTranslate

SpecServer == InitServer /\ [][NextServer]_vars

(***************************************************************************)
(* The browser session                                                     *)
(***************************************************************************)
\* the files a user may submit
FileJ == [name |-> Str("j"), type |-> "image/jpeg", size |-> 2 * 1024 * 1024]
FileW == [name |-> Str("w"), type |-> "image/webp", size |-> MAX_SIZE_BYTES]
FileP == [name |-> Str("p"), type |-> "image/png", size |-> MAX_SIZE_BYTES + 1]
FileG == [name |-> Str("g"), type |-> "image/gif", size |-> 6 * 1024 * 1024]
Files == {FileJ, FileW, FileP, FileG}

FileLists == SeqsUpTo(Files, MaxFiles) \ {<<>>}

\* handleFiles invocations; a slot is an activation of the async function
Slots == 1..MaxRows
Active(b) == pc[b] # "idle"
InFlight == {b \in Slots : Active(b)}

RECURSIVE SumOver(_, _)
SumOver(S, f) ==
    IF S = {} THEN 0
    ELSE LET x == CHOOSE y \in S : TRUE IN f[x] + SumOver(S \ {x}, f)

\* rows the batches in flight may still append
PendingRows ==
    SumOver(InFlight, [b \in Slots |->
        IF pc[b] = "describing" THEN Len(validFiles[b]) ELSE Len(described[b])])

\* every list a user may submit, with what the validation loop makes of it
Validated == {[files |-> files, v |-> Validate(files, 1, <<>>, <<>>)] : files \in FileLists}

\* what the session can still take within MaxRows rows and MaxErrors errors
RoomForRows == MaxRows - Len(rows) - PendingRows
RoomForErrors == MaxErrors - Len(errors) - Cardinality(InFlight)

Fits(v, roomForRows, roomForErrors) ==
    /\ Len(v.validFiles) <= roomForRows
    /\ Len(v.newErrors) + (IF v.validFiles = <<>> THEN 0 ELSE 1) <= roomForErrors

\* the activation a new invocation gets: the first that is not in use
FreeSlots == Slots \ InFlight
FirstFree == CHOOSE b \in FreeSlots : \A c \in FreeSlots : b <= c

\* handleFiles(files) up to its first await, as activation b
HandleFiles(files, b) ==
    LET v == Validate(files, 1, <<>>, <<>>) IN
    /\ asArray' = files
    /\ errors' = errors \o v.newErrors
    /\ IF v.validFiles = <<>>
       THEN UNCHANGED <<isProcessing, pc, validFiles>>
       ELSE /\ isProcessing' = TRUE
            /\ pc' = [pc EXCEPT ![b] = "describing"]
            /\ validFiles' = [validFiles EXCEPT ![b] = v.validFiles]
    /\ settled' = "none"
    /\ csv' = <<>>
    /\ UNCHANGED <<rows, described, serverVars>>

\* the user submits some files the session has room for
Submit ==
    LET roomForRows == RoomForRows
        roomForErrors == RoomForErrors
        b == FirstFree
    IN
    /\ FreeSlots # {}
    /\ \E o \in Validated :
         Fits(o.v, roomForRows, roomForErrors) /\ HandleFiles(o.files, b)

\* onInputChange: the Browse button is disabled while isProcessing
Browse ==
    /\ ~isProcessing
    /\ Submit

\* onDrop: if (files && files.length) handleFiles(files)
Drop ==
    /\ Submit
    /\ Len(asArray') > 0

\* what the remote may do while the session's requests are served
SessionDescribeOutcomes == {RemoteFail, RemoteOk(Text(Str("a")))}
SessionTranslateOutcomes == {RemoteFail, RemoteOk(ObjOmitFr)}

DescribeReplies(files) ==
    {NetworkError, NoArrayReply}
    \cup {FromRelay(DescribeRoute(ToUploads(files), outs)) :
            outs \in [1..Len(files) -> SessionDescribeOutcomes]}

TranslateReplies(items) ==
    {NetworkError, NoArrayReply}
    \cup {FromRelay(TranslateRoute(TranslateBody(items), outs)) :
            outs \in [1..Len(items) -> SessionTranslateOutcomes]}

\* Caught that also keeps what the batch has so far: the described items as
\* rows without translations
CaughtKeepingDescribed(b, e) ==
    /\ errors' = CatchError(errors, e)
    /\ rows' = rows \o [i \in 1..Len(described[b]) |-> NewRow(described[b][i])]
    /\ isProcessing' = FALSE
    /\ pc' = [pc EXCEPT ![b] = "idle"]
    /\ settled' = "failed"
    /\ asArray' = <<>>
    /\ validFiles' = [validFiles EXCEPT ![b] = <<>>]
    /\ described' = [described EXCEPT ![b] = <<>>]
    /\ csv' = <<>>
    /\ UNCHANGED serverVars

\* the catch and finally blocks of handleFiles, for activation b
Caught(b, e) ==
    /\ errors' = CatchError(errors, e)
    /\ isProcessing' = FALSE
    /\ pc' = [pc EXCEPT ![b] = "idle"]
    /\ settled' = "failed"
    /\ asArray' = <<>>
    /\ validFiles' = [validFiles EXCEPT ![b] = <<>>]
    /\ described' = [described EXCEPT ![b] = <<>>]
    /\ csv' = <<>>
    /\ UNCHANGED <<rows, serverVars>>

\* batchDescribe returned: described is set and batchTranslate is called
Described(b, value) ==
    /\ described' = [described EXCEPT ![b] = value]
    /\ pc' = [pc EXCEPT ![b] = "translating"]
    \* validFiles is not read again
    /\ validFiles' = [validFiles EXCEPT ![b] = <<>>]
    /\ asArray' = <<>>
    /\ settled' = "none"
    /\ csv' = <<>>
    /\ UNCHANGED <<rows, errors, isProcessing, serverVars>>

\* batchTranslate returned: setRows, then the finally block
Completed(b, completedRows) ==
    /\ rows' = AppendRows(rows, completedRows)
    /\ isProcessing' = FALSE
    /\ pc' = [pc EXCEPT ![b] = "idle"]
    /\ settled' = "done"
    /\ described' = [described EXCEPT ![b] = <<>>]
    /\ asArray' = <<>>
    /\ csv' = <<>>
    /\ UNCHANGED <<errors, validFiles, serverVars>>

\* await batchDescribe(validFiles) settles: it returns the items or throws
DescribeSettles(b) ==
    /\ pc[b] = "describing"
    /\ \E reply \in DescribeReplies(validFiles[b]) :
         LET r == BatchDescribe(reply) IN
         IF r.ok THEN Described(b, r.value) ELSE Caught(b, r)

\* await batchTranslate(described, locales) settles: it returns the rows or throws
TranslateSettles(b) ==
    /\ pc[b] = "translating"
    /\ \E reply \in TranslateReplies(described[b]) :
         LET r == BatchTranslate(reply) IN
         IF r.ok THEN Completed(b, r.value) ELSE Caught(b, r)

\* clearRows: the Clear Table button, disabled while the table is empty
ClearRows ==
    /\ Len(rows) > 0
    /\ rows' = <<>>
    /\ asArray' = <<>>
    /\ settled' = "none"
    /\ csv' = <<>>
    /\ UNCHANGED <<errors, isProcessing, pc, validFiles, described, serverVars>>

\* clearErrors: the Clear button, rendered while there are errors
ClearErrors ==
    /\ Len(errors) > 0
    /\ errors' = <<>>
    /\ asArray' = <<>>
    /\ settled' = "none"
    /\ csv' = <<>>
    /\ UNCHANGED <<rows, isProcessing, pc, validFiles, described, serverVars>>

\* download: the Download CSV button, disabled while the table is empty
Download ==
    /\ Len(rows) > 0
    /\ csv' = Blob(rows)
    /\ asArray' = <<>>
    /\ settled' = "none"
    /\ UNCHANGED <<rows, errors, isProcessing, pc, validFiles, described, serverVars>>

InitSession ==
    /\ req = NoRequest /\ res = NoResponse
    /\ rows = <<>>
    /\ errors = <<>>
    /\ isProcessing = FALSE
    /\ pc = [b \in Slots |-> "idle"]
    /\ asArray = <<>>
    /\ validFiles = [b \in Slots |-> <<>>]
    /\ described = [b \in Slots |-> <<>>]
    /\ settled = "none"
    /\ csv = <<>>

Next ==
    \/ Browse
    \/ Drop
    \/ \E b \in Slots : DescribeSettles(b)
    \/ \E b \in Slots : TranslateSettles(b)
    \/ ClearRows
    \/ ClearErrors
    \/ Download

Spec == InitSession /\ [][Next]_vars

(***************************************************************************)
(* Properties of the session                                               *)
(***************************************************************************)
BatchFailureKinds ==
    {"Failed to fetch", "Describe API failed", "Bad describe API response",
     "Translate API failed", "Bad translate API response"}

LastError == errors[Len(errors)]

\* C1: the step in which a batch fails (its describe or its translate call
\* threw) leaves rows as it was and appends exactly one message, the
\* failure's, to errors; the step in which its describe call returns leaves
\* rows as it was too, so a batch that fails in translation has added nothing.
C1_FailedBatchKeepsRows ==
    [][\A b \in Slots :
        /\ (Active(b) /\ pc'[b] = "idle" /\ settled' = "failed") =>
              /\ rows' = rows
              /\ Len(errors') = Len(errors) + 1
              /\ SubSeq(errors', 1, Len(errors)) = errors
              /\ errors'[Len(errors')].kind \in BatchFailureKinds
        /\ (pc[b] = "describing" /\ pc'[b] = "translating") => rows' = rows
      ]_vars

C1_Witness ==
    /\ settled = "failed"
    /\ InFlight = {}
    /\ Len(rows) = 1
    /\ Len(errors) = 1
    /\ LastError.kind = "Translate API failed"
    /\ LastError.status = 500

\* the accepted set and the ceiling, as the claim states them
AcceptedType(f) == f.type \in {"image/jpeg", "image/jpg", "image/png", "image/webp"}
Accepted(f) == AcceptedType(f) /\ f.size <= 5242880

Range(s) == {s[i] : i \in 1..Len(s)}

\* the activation that the step just taken started, if it started one
Started(b) == pc[b] = "idle" /\ pc'[b] = "describing"

\* C3: the files given to the describe call are exactly the files of the
\* batch that have an accepted type and at most 5 MiB, in their original
\* order, and no file of another type is among them; when all of them are
\* rejected no describe call is made; and the items the describe call
\* returns name the files it was given, in that order.
C3_ValidFilesSent ==
    [][/\ \A b \in Slots :
            /\ Started(b) =>
                  /\ validFiles'[b] = SelectSeq(asArray', Accepted)
                  /\ \A f \in Range(asArray') :
                        ~AcceptedType(f) => f \notin Range(validFiles'[b])
            /\ (pc[b] = "describing" /\ pc'[b] = "translating") =>
                  [i \in 1..Len(described'[b]) |-> described'[b][i].filename]
                    = [i \in 1..Len(validFiles[b]) |-> validFiles[b][i].name]
       /\ (asArray' # <<>> /\ SelectSeq(asArray', Accepted) # <<>>) =>
              \E b \in Slots : Started(b)
       /\ (asArray' # <<>> /\ SelectSeq(asArray', Accepted) = <<>>) => pc' = pc
      ]_vars

C3_Witness ==
    \E b \in Slots :
        /\ pc[b] = "describing"
        /\ asArray = <<FileG, FileW, FileJ>>
        /\ validFiles[b] = <<FileW, FileJ>>
        /\ errors = <<FormatMessage(FileG)>>

ValidationKinds == {"exceeds 5 MB", "is not a supported image format"}
FileNamed(n) == CHOOSE f \in Files : f.name = n

\* the messages a batch's files must produce, file by file
RECURSIVE RejectionsOf(_)
RejectionsOf(files) ==
    IF files = <<>> THEN <<>>
    ELSE LET f == Head(files) IN
         (IF ~AcceptedType(f) THEN <<FormatMessage(f)>>
          ELSE IF f.size > 5242880 THEN <<SizeMessage(f)>>
          ELSE <<>>) \o RejectionsOf(Tail(files))

\* C4 as amended: a file larger than 5 MiB is rejected, with the size
\* message when its type is accepted and with the format message when it is
\* not; a file of exactly 5 MiB of an accepted type is not rejected.
C4_SizeRejection ==
    [][asArray' # <<>> =>
        /\ errors' = errors \o RejectionsOf(asArray')
        /\ \A f \in Range(asArray') :
              /\ f.size > 5242880 =>
                    /\ \A b \in Slots : f \notin Range(validFiles'[b])
                    /\ AcceptedType(f) => SizeMessage(f) \in Range(errors')
                    /\ ~AcceptedType(f) =>
                          FormatMessage(f) \in Range(errors') /\ SizeMessage(f) \notin Range(errors')
              /\ (AcceptedType(f) /\ f.size = 5242880) =>
                    /\ \E b \in Slots : Started(b) /\ f \in Range(validFiles'[b])
                    /\ SizeMessage(f) \notin Range(errors')
      ]_vars

C4_Witness ==
    \E b \in Slots :
        /\ pc[b] = "describing"
        /\ asArray = <<FileP, FileW>>
        /\ validFiles[b] = <<FileW>>
        /\ errors = <<SizeMessage(FileP)>>

\* C4 as originally stated: every message about a file larger than 5 MiB is
\* the size message, whatever the file's type.
C4_Original ==
    \A i \in 1..Len(errors) :
        (errors[i].kind \in ValidationKinds /\ FileNamed(errors[i].name).size > 5242880)
            => errors[i].kind = "exceeds 5 MB"

\* C9: rows changes only when a batch completes, which appends that batch's
\* rows after the rows already there, or when Clear Table empties it; a
\* submission, a failing batch, Clear errors and Download CSV leave it as it was.
C9_RowsAppendOnly ==
    [][/\ \/ rows' = rows
          \/ /\ rows' = <<>>
             /\ UNCHANGED <<errors, isProcessing, pc, validFiles, described>>
          \/ \E b \in Slots :
                /\ pc[b] = "translating" /\ pc'[b] = "idle" /\ settled' = "done"
                /\ Len(rows') = Len(rows) + Len(described[b])
                /\ SubSeq(rows', 1, Len(rows)) = rows
                /\ \A i \in 1..Len(described[b]) :
                      /\ rows'[Len(rows) + i].filename = described[b][i].filename
                      /\ rows'[Len(rows) + i].english_alt = described[b][i].english_alt
       /\ errors' # errors => rows' = rows
       /\ csv' # <<>> => rows' = rows
       /\ \A b \in Slots :
            (pc'[b] # pc[b] /\ ~(pc'[b] = "idle" /\ settled' = "done")) => rows' = rows
      ]_vars

C9_Witness ==
    /\ settled = "done"
    /\ InFlight = {}
    /\ Len(rows) = 2
    /\ rows[1].filename = FileW.name
    /\ rows[2].filename = FileJ.name
    /\ Len(errors) = 1
    /\ LastError.kind = "Describe API failed"

\* C10: isProcessing is true exactly while some batch awaits its describe or
\* translate response.
C10_ProcessingWhileInFlight ==
    isProcessing <=> InFlight # {}

(***************************************************************************)
(* The exporter on its own: any table, then Download CSV                   *)
(***************************************************************************)
CsvChars == {"a", ",", DQ, "\n", "\r"}
CsvKeys == {"filename", "fr-FR", "de-AT"}

BaseRow ==
    [h \in {HEADERS[j] : j \in 1..Len(HEADERS)} |->
        IF h = "filename" THEN Str("j")
        ELSE IF h = "english_alt" THEN Str("a")
        ELSE Translated(h)]

\* rows that differ from BaseRow in one field
CsvRows ==
    {[BaseRow EXCEPT ![k] = v] : k \in CsvKeys, v \in SeqsUpTo(CsvChars, MaxFieldLen)}

InitCsv ==
    /\ req = NoRequest /\ res = NoResponse
    /\ rows \in SeqsUpTo(CsvRows, MaxCsvRows)
    /\ errors = <<>>
    /\ isProcessing = FALSE
    /\ pc = <<>>
    /\ asArray = <<>>
    /\ validFiles = <<>>
    /\ described = <<>>
    /\ settled = "none"
    /\ csv = <<>>

NextCsv == Download

SpecCsv == InitCsv /\ [][NextCsv]_vars

\* a CSV reader: a character is inside a quoted field when an odd number of
\* double quotes precedes it; records end at a LF or CRLF outside quoted
\* fields, fields at a comma outside them; a field that opens with a double
\* quote loses its enclosing quotes and each doubled quote inside it is one
\* quote; any other character, a lone CR included, is data
Outside(s, i) == Cardinality({k \in 1..(i - 1) : s[k] = DQ}) % 2 = 0

Cuts(s, sep) == {i \in 1..Len(s) : s[i] = sep /\ Outside(s, i)}

Ascending(S) ==
    [n \in 1..Cardinality(S) |-> CHOOSE i \in S : Cardinality({j \in S : j < i}) = n - 1]

Split(s, sep) ==
    LET cuts == Ascending(Cuts(s, sep))
        n == Len(cuts)
    IN [k \in 1..(n + 1) |->
          SubSeq(s, IF k = 1 THEN 1 ELSE cuts[k - 1] + 1,
                    IF k = n + 1 THEN Len(s) ELSE cuts[k] - 1)]

RECURSIVE Undouble(_)
Undouble(s) ==
    IF Len(s) >= 2 /\ s[1] = DQ /\ s[2] = DQ THEN <<DQ>> \o Undouble(SubSeq(s, 3, Len(s)))
    ELSE IF s = <<>> THEN <<>>
    ELSE <<Head(s)>> \o Undouble(Tail(s))

Unquote(f) ==
    IF Len(f) >= 2 /\ Head(f) = DQ /\ f[Len(f)] = DQ
    THEN Undouble(SubSeq(f, 2, Len(f) - 1))
    ELSE f

\* the fields of a line; the CR before the LF that ended it, if any, is part
\* of the terminator
ParseRecord(line, ended) ==
    LET l == IF ended /\ line # <<>> /\ line[Len(line)] = "\r"
             THEN SubSeq(line, 1, Len(line) - 1) ELSE line
        fields == Split(l, ",")
    IN [j \in 1..Len(fields) |-> Unquote(fields[j])]

\* the records of a downloaded document, its byte-order mark removed
ParseCsv(doc) ==
    LET text == IF doc # <<>> /\ Head(doc) = BOM THEN Tail(doc) ELSE doc
        lines == Split(text, "\n")
        \* a line terminator at the very end starts no further record
        n == IF lines[Len(lines)] = <<>> THEN Len(lines) - 1 ELSE Len(lines)
    IN [i \in 1..n |-> ParseRecord(lines[i], i < Len(lines))]

RoundTrips ==
    LET parsed == ParseCsv(csv) IN
    /\ Len(parsed) = Len(rows) + 1
    /\ parsed[1] = [j \in 1..Len(HEADERS) |-> Str(HEADERS[j])]
    /\ \A i \in 1..Len(rows) :
          parsed[i + 1] = [j \in 1..Len(HEADERS) |-> rows[i][HEADERS[j]]]

HasCR(r) == \E h \in DOMAIN r : \E i \in 1..Len(r[h]) : r[h][i] = "\r"

\* C6: the downloaded document, read back by a CSV reader, is the header
\* record followed by one record per row whose nine fields are the row's
\* values in column order, whatever characters the fields hold.
C6_CsvRoundTrip ==
    csv # <<>> => RoundTrips

\* C6 for fields without a carriage return: commas, double quotes and line
\* feeds come back unchanged
C6_RoundTripWithoutCR ==
    (csv # <<>> /\ \A i \in 1..Len(rows) : ~HasCR(rows[i])) => RoundTrips

C6_WithoutCRWitness ==
    /\ csv # <<>>
    /\ Len(rows) = 2
    /\ rows[1]["de-AT"] = <<DQ, "\n">>
    /\ rows[2]["filename"] = <<",", "a">>


(***************************************************************************)
(* Properties of the relay                                                 *)
(***************************************************************************)
Served(route) == req.route = route /\ res # NoResponse

AllResolve(outs) == \A i \in DOMAIN outs : outs[i].k = "ok"

\* C5: when every remote call succeeds, the describe route answers 200 with
\* exactly one {filename, english_alt} item per uploaded file, in submission
\* order, item i carrying the original name of file i; with zero files it
\* answers 200 with the empty list and issues no remote call.
C5_DescribeOnePerFile ==
    (Served("describe") /\ AllResolve(req.outs)) =>
        /\ res.status = 200
        /\ Len(res.list) = Len(req.files)
        /\ \A i \in 1..Len(req.files) :
              /\ DOMAIN res.list[i] = {"filename", "english_alt"}
              /\ res.list[i].filename = req.files[i].originalname
        /\ res.calls = Len(req.files)
        /\ (Len(req.files) = 0 => res.list = <<>> /\ res.calls = 0)

C5_Witness ==
    /\ Served("describe") /\ AllResolve(req.outs)
    /\ Len(req.files) = 2
    /\ req.files[1] = UploadW /\ req.files[2] = UploadJ
    /\ res.status = 200

\* the arrays of a translate request that passed the shape check
ReqItems == Destructure(req.body).items.v
ReqLocales == Destructure(req.body).locales.v
ShapeOk ==
    Destructure(req.body).items.isArray /\ Destructure(req.body).locales.isArray
Requested == {ReqLocales[j] : j \in 1..Len(ReqLocales)}

\* the object the remote returned for item i has a string under key lc
RemoteReturned(i, lc) ==
    /\ req.outs[i].content.t = "object"
    /\ lc \in DOMAIN req.outs[i].content.get
    /\ req.outs[i].content.get[lc].t = "str"

\* the remote response for item i has no key lc (no content counts as {})
Omitted(i, lc) ==
    \/ req.outs[i].content.t = "none"
    \/ /\ req.outs[i].content.t = "object"
       /\ lc \notin DOMAIN req.outs[i].content.get

\* C2: every row the translate route returns has all seven locale keys; a
\* requested locale the remote response omitted is the empty string, a
\* requested locale the remote response returned a string for is that string.
C2_SevenLocaleKeys ==
    (Served("translate") /\ res.status = 200) =>
        \A i \in 1..Len(res.list) :
            /\ LocaleSet \subseteq DOMAIN res.list[i]
            /\ \A lc \in Requested :
                  /\ Omitted(i, lc) => res.list[i][lc] = EmptyStr
                  /\ RemoteReturned(i, lc) => res.list[i][lc] = req.outs[i].content.get[lc].s
            /\ \A lc \in LocaleSet \ Requested : res.list[i][lc] = EmptyStr

C2_Witness ==
    /\ Served("translate") /\ res.status = 200
    /\ ReqLocales = LOCALES
    /\ Len(res.list) = 2
    /\ req.outs[2].content = ObjOmitFr
    /\ res.list[2]["fr-FR"] = EmptyStr
    /\ res.list[2]["de-AT"] = Translated("de-AT")
    /\ res.list[1]["fr-FR"] = Translated("fr-FR")

\* no step of the translate loop throws: every item is an object, every
\* remote call resolves, and its content parses to something indexable
NoThrow ==
    \A i \in 1..Len(ReqItems) :
        /\ ReqItems[i] # NullItem
        /\ req.outs[i].k = "ok"
        /\ req.outs[i].content.t # "garbage"
        /\ req.outs[i].content.t = "null" => ReqLocales = <<>>

RowsInItemOrder ==
    /\ Len(res.list) = Len(ReqItems)
    /\ \A i \in 1..Len(ReqItems) :
          /\ res.list[i].english_alt = ReqItems[i].english_alt
          /\ "filename" \notin Requested => res.list[i].filename = ReqItems[i].filename

\* C7 as amended: a body whose items or locales is not an array is answered
\* 400 before any remote call; otherwise the answer is 200 with one row per
\* item, in item order, exactly when no step of the loop throws, and 500
\* with no rows when one does.
C7_ShapeCheckThenRows ==
    Served("translate") =>
        /\ ~ShapeOk => res.status = 400 /\ res.calls = 0 /\ res.list = <<>>
        /\ (ShapeOk /\ NoThrow) =>
              res.status = 200 /\ RowsInItemOrder /\ res.calls = Len(ReqItems)
        /\ (ShapeOk /\ ~NoThrow) => res.status = 500 /\ res.list = <<>>

C7_Witness ==
    /\ Served("translate") /\ ShapeOk
    /\ ReqItems = <<ItemW, ItemJ>>
    /\ res.status = 200
    /\ res.list[1].filename = Str("w") /\ res.list[2].filename = Str("j")

\* every item is an object and the remote returns a JSON object for each
RemoteWellBehavedButFailing ==
    \A i \in 1..Len(ReqItems) :
        /\ ReqItems[i] # NullItem
        /\ req.outs[i].k = "ok" => req.outs[i].content.t = "object"

\* C7 as originally stated: whenever both fields are arrays the answer is
\* {rows} with one row per item.  Stated here for the requests whose items are
\* objects and whose remote contents are JSON objects, so that the violation
\* is a rejected remote call and nothing else.
C7_Original ==
    (Served("translate") /\ ShapeOk /\ RemoteWellBehavedButFailing) =>
        res.status = 200 /\ RowsInItemOrder

\* the response for item i is malformed: unparseable, or an object without
\* some requested key
Malformed(i) ==
    \/ req.outs[i].content.t = "garbage"
    \/ \E lc \in Requested : Omitted(i, lc)

\* C8: when every remote call resolves and the response for some item is
\* malformed (it does not parse, or it parses and omits requested keys), the
\* translate route still answers 200 with a row for every item, the affected
\* locale fields of the malformed item being the empty string.
C8_MalformedDegrades ==
    ( /\ Served("translate") /\ ShapeOk
      /\ \A i \in 1..Len(ReqItems) :
            /\ ReqItems[i] # NullItem
            /\ req.outs[i].k = "ok"
            /\ req.outs[i].content.t \in {"garbage", "object", "none"}
      /\ \E i \in 1..Len(ReqItems) : Malformed(i) ) =>
        /\ res.status = 200
        /\ Len(res.list) = Len(ReqItems)
        /\ \A i \in 1..Len(ReqItems) :
              \A lc \in Requested :
                  (req.outs[i].content.t = "garbage" \/ Omitted(i, lc)) =>
                        res.list[i][lc] = EmptyStr

=============================================================================
